---- MODULE Spec2Model ----
(* Session-and-attachment lifecycle of the SURYA AI chat backend.            *)
(* Two builds of the same backend are modelled: the standalone Express       *)
(* server (src/server.js, second half) and the serverless function           *)
(* (src/Netlify/functions/api.js, src/unnamed/part_000, first half of        *)
(* src/server.js).  Request handlers are JavaScript async functions: the     *)
(* code between two awaits runs to completion, so every action below is one  *)
(* such run, from a request arrival or a provider response up to the next    *)
(* await or to the response.                                                  *)
EXTENDS Integers, Sequences, FiniteSets, TLC

\* ---------------------------------------------------------------- bounds
MaxTurns == 2
MaxUploads == 2

\* ------------------------------------------------------------- constants
SESSION_ID == "default-it-user"
SessionIds == {SESSION_ID}
Variants == {"server", "serverless"}

\* What the build does when process.env.GEMINI_API_KEY is absent.  The
\* server exits ("noStart"); the single-function serverless build installs a
\* handler that answers every request 500 ("fixed500"); the Express
\* serverless build only logs and goes on with an undefined key ("logOnly"),
\* unless the client constructor rejects the undefined key, in which case the
\* module does not load ("noStart").
KeyModes(v) ==
    IF v = "server" THEN {"set", "noStart"}
    ELSE {"set", "fixed500", "logOnly", "noStart"}

Undefined == "<undefined>"
NoToken == 0
NoChat == 0
NoFile == [name |-> 0, displayName |-> "", mimeType |-> ""]

Turns == 1..MaxTurns
Uploads == 1..MaxUploads
Tokens == 1..MaxUploads
\* A token the provider never assigns to an uploaded file ("bad-token").
BadToken == MaxUploads + 1

PromptInputs == {Undefined, "", "Hello"}
TokenInputs == {NoToken} \cup Tokens \cup {BadToken}
Base64Inputs == {"", "YWJj"}
MimeInputs == {"", "text/plain"}
NameInputs == {"", "f.txt"}

VARIABLES
    variant,            \* which build is running
    keyMode,            \* GEMINI_API_KEY: "set", or what its absence led to
    chatSessions,       \* Map sessionId -> chat (NoChat: no entry)
    uploadedFilesMap,   \* object fileToken -> Gemini file object
    turn,               \* per /chat request: handler position and locals
    upload,             \* per /upload request: handler position and locals
    filesIssued,        \* provider: number of file names assigned so far
    createCalls,        \* provider: ai.chats.create calls, per session
    createFails,        \* provider: ai.chats.create calls that threw
    gcsCalls,           \* getChatSession calls, per session
    lastCreate,         \* outcome of the latest ai.chats.create, per session
    deleteCalls         \* provider: ai.files.delete calls, per name

vars == <<variant, keyMode, chatSessions, uploadedFilesMap, turn, upload, filesIssued,
          createCalls, createFails, gcsCalls, lastCreate, deleteCalls>>

\* ---------------------------------------------------------- JS helpers
Falsy(x) == x = Undefined \/ x = ""

Has(m, k) == k \in DOMAIN m

Remove(m, k) == [x \in (DOMAIN m) \ {k} |-> m[x]]

\* An assignment that is lost: the map stays as it was.
Put_NoStore(m, k, v) == m

Put(m, k, v) == [x \in (DOMAIN m) \cup {k} |-> IF x = k THEN v ELSE m[x]]

\* Why a supplied token has no entry in uploadedFilesMap at the moment a
\* request arrives: "consumed" (it was stored and has been deleted), "never"
\* (the provider never assigns it), "notYet" (the provider has not assigned
\* it so far), or "no" (no token, or the entry is there).
TokenAbsence(fileToken) ==
    IF fileToken = NoToken \/ Has(uploadedFilesMap, fileToken) THEN "no"
    ELSE IF fileToken = BadToken THEN "never"
    ELSE IF fileToken <= filesIssued THEN "consumed"
    ELSE "notYet"

\* The route handlers are installed and run.
Serving == keyMode \in {"set", "logOnly"}

\* Outcomes of a network call to the provider (TRUE: resolves): without a
\* credential the provider rejects every call.
ProviderOutcomes == IF keyMode = "set" THEN BOOLEAN ELSE {FALSE}

\* Handlers run one request at a time: the next request is taken only when
\* the previous one has ended.
InArrivalOrder_Serialized(reqs, i) ==
    IF i = 1 THEN TRUE ELSE reqs[i - 1].pc \in {"done", "crashed"}

\* Requests are numbered in the order they arrive.
InArrivalOrder(reqs, i) == IF i = 1 THEN TRUE ELSE reqs[i - 1].pc # "idle"

FilePart(f) == [kind |-> "file", file |-> f, text |-> ""]

TextPart(p) == [kind |-> "text", file |-> NoFile, text |-> p]

IdleTurn ==
    [pc |-> "idle", fileToken |-> NoToken, chatSession |-> NoChat,
     fileToDelete |-> NoFile, contents |-> <<>>, status |-> 0,
     err |-> "none", staged |-> FALSE, sendRes |-> "none", sendCalls |-> 0,
     consumeCalls |-> 0, deleteFailed |-> FALSE, createFailed |-> FALSE,
     consumedAfterSend |-> TRUE, prompt |-> Undefined, absent |-> "no"]

IdleUpload ==
    [pc |-> "idle", displayName |-> "", mimeType |-> "", status |-> 0,
     fileToken |-> NoToken]

Init ==
    /\ variant \in Variants
    /\ keyMode \in KeyModes(variant)
    /\ chatSessions = [s \in SessionIds |-> NoChat]
    /\ uploadedFilesMap = <<>>
    /\ turn = [t \in Turns |-> IdleTurn]
    /\ upload = [u \in Uploads |-> IdleUpload]
    /\ filesIssued = 0
    /\ createCalls = [s \in SessionIds |-> 0]
    /\ createFails = [s \in SessionIds |-> 0]
    /\ gcsCalls = [s \in SessionIds |-> 0]
    /\ lastCreate = [s \in SessionIds |-> "none"]
    /\ deleteCalls = [k \in Tokens |-> 0]

\* ------------------------------------------------- Conversation Registry
\* getChatSession without the has() check: every call creates and stores.
getChatSession_AlwaysCreates(sessionId, createOk) ==
    IF createOk
    THEN [threw |-> FALSE,
          chat |-> createCalls[sessionId] + 1,
          sessions |-> [chatSessions EXCEPT
                           ![sessionId] = createCalls[sessionId] + 1],
          created |-> 1, failed |-> 0]
    ELSE [threw |-> TRUE, chat |-> NoChat, sessions |-> chatSessions,
          created |-> 1, failed |-> 1]

\* getChatSession that stores an entry before the creation has succeeded,
\* so a failed creation leaves a stored entry behind.
getChatSession_StoresFailed(sessionId, createOk) ==
    IF chatSessions[sessionId] = NoChat
    THEN [threw |-> ~createOk,
          chat |-> IF createOk THEN createCalls[sessionId] + 1 ELSE NoChat,
          sessions |-> [chatSessions EXCEPT
                           ![sessionId] = createCalls[sessionId] + 1],
          created |-> 1, failed |-> IF createOk THEN 0 ELSE 1]
    ELSE [threw |-> FALSE, chat |-> chatSessions[sessionId],
          sessions |-> chatSessions, created |-> 0, failed |-> 0]

\* getChatSession(sessionId): check-then-create, synchronous (no await).
\* createOk is the outcome of ai.chats.create; when it throws, the set()
\* after it is not executed and the exception leaves getChatSession.
getChatSession(sessionId, createOk) ==
    IF chatSessions[sessionId] = NoChat
    THEN IF createOk
         THEN [threw |-> FALSE,
               chat |-> createCalls[sessionId] + 1,
               sessions |-> [chatSessions EXCEPT
                                ![sessionId] = createCalls[sessionId] + 1],
               created |-> 1, failed |-> 0]
         ELSE [threw |-> TRUE, chat |-> NoChat, sessions |-> chatSessions,
               created |-> 1, failed |-> 1]
    ELSE [threw |-> FALSE, chat |-> chatSessions[sessionId],
          sessions |-> chatSessions, created |-> 0, failed |-> 0]

\* Bookkeeping of one getChatSession call whose result is g.
RegistryStep(g) ==
    /\ chatSessions' = g.sessions
    /\ gcsCalls' = [gcsCalls EXCEPT ![SESSION_ID] = @ + 1]
    /\ createCalls' = [createCalls EXCEPT ![SESSION_ID] = @ + g.created]
    /\ createFails' = [createFails EXCEPT ![SESSION_ID] = @ + g.failed]
    /\ lastCreate' = [lastCreate EXCEPT ![SESSION_ID] =
                         IF g.created = 0 THEN @
                         ELSE IF g.failed = 1 THEN "failed" ELSE "ok"]

RegistryUnchanged ==
    UNCHANGED <<chatSessions, gcsCalls, createCalls, createFails, lastCreate>>

\* ----------------------------------------------------- Attachment Broker
\* The name deleteGeminiFile passes to ai.files.delete, NoToken when it
\* returns without calling the provider.  The server deletes by the token
\* itself; the serverless build looks the token up first.
DeleteTarget(fileToken, m) ==
    IF variant = "server"
    THEN fileToken
    ELSE IF Has(m, fileToken) /\ m[fileToken].name # 0
         THEN m[fileToken].name
         ELSE NoToken

\* A cleanup that empties the whole map instead of deleting one key.
AfterDelete_ClearsAll(m, fileToken, ok) ==
    IF ok THEN <<>> ELSE m

\* The map after ai.files.delete has settled: the local entry is deleted on
\* the line after the await, which a rejected delete skips.
AfterDelete(m, fileToken, ok) ==
    IF ok THEN Remove(m, fileToken) ELSE m

\* deleteGeminiFile without its try/catch: a rejected delete escapes.
DeleteThrows_Rethrows(ok) == ~ok

\* Whether deleteGeminiFile lets the provider's failure escape: its whole
\* body is inside try/catch and the catch only logs.
DeleteThrows(ok) == FALSE

\* ------------------------------------------------------ responses
\* res.json(...) on the success path, res.status(500) in the catch block.
Respond(r, phase) ==
    IF phase = "try"
    THEN [r EXCEPT !.pc = "done", !.status = 200]
    ELSE [r EXCEPT !.pc = "done", !.status = 500]

\* An exception that leaves the async handler: the handler sends nothing.
\* What the caller then sees is up to the framework around the handler: one
\* that ignores a rejected handler promise leaves the request unanswered,
\* one that routes it to its error handler answers 500.
Unhandled(r, cause, frameworkAnswers) ==
    IF frameworkAnswers
    THEN [r EXCEPT !.pc = "done", !.status = 500, !.err = cause]
    ELSE [r EXCEPT !.pc = "crashed", !.err = cause]

\* `await deleteGeminiFile(fileToken)` up to its first await (or to its
\* return when it makes no provider call).
StartCleanup(r, phase, m) ==
    LET r1 == [r EXCEPT !.consumeCalls = @ + 1,
                        !.consumedAfterSend =
                            @ /\ r.sendRes \in {"ok", "failed"}]
        target == DeleteTarget(r.fileToken, m)
    IN  IF target # NoToken
        THEN [turn |-> [r1 EXCEPT !.pc = IF phase = "try"
                                         THEN "awaitDeleteTry"
                                         ELSE "awaitDeleteCatch"],
              del |-> target]
        ELSE [turn |-> Respond(r1, phase), del |-> NoToken]

\* A catch block that sends the message once more after a failed send.
EnterCatch_Retries(r, cause, m) ==
    IF cause = "send" /\ r.sendCalls < 2
    THEN [turn |-> [r EXCEPT !.pc = "awaitSend", !.sendRes = "pending",
                             !.sendCalls = @ + 1],
          del |-> NoToken]
    ELSE LET r1 == [r EXCEPT !.err = cause]
         IN  IF r.fileToken # NoToken /\ Has(m, r.fileToken)
             THEN StartCleanup(r1, "catch", m)
             ELSE [turn |-> Respond(r1, "catch"), del |-> NoToken]

\* The catch block of the /chat handler, entered with exception `cause`.
EnterCatch(r, cause, m) ==
    LET r1 == [r EXCEPT !.err = cause]
    IN  IF r.fileToken # NoToken /\ Has(m, r.fileToken)
        THEN StartCleanup(r1, "catch", m)
        ELSE [turn |-> Respond(r1, "catch"), del |-> NoToken]

\* The try block pushing the prompt before the file.
BuildAndSend_PromptFirst(r, prompt, chat, m) ==
    LET hit == r.fileToken # NoToken /\ Has(m, r.fileToken)
        f == IF hit THEN m[r.fileToken] ELSE NoFile
    IN  [r EXCEPT !.pc = "awaitSend",
                  !.prompt = prompt,
                  !.chatSession = chat,
                  !.fileToDelete = f,
                  !.contents = IF hit THEN <<TextPart(prompt), FilePart(f)>>
                               ELSE <<TextPart(prompt)>>,
                  !.sendRes = "pending",
                  !.sendCalls = @ + 1]

\* The try block pushing the looked-up value whenever a token is supplied,
\* without checking that the lookup hit.
BuildAndSend_PushesMissing(r, prompt, chat, m) ==
    LET hit == r.fileToken # NoToken /\ Has(m, r.fileToken)
        f == IF hit THEN m[r.fileToken] ELSE NoFile
    IN  [r EXCEPT !.pc = "awaitSend",
                  !.prompt = prompt,
                  !.chatSession = chat,
                  !.fileToDelete = f,
                  !.contents = IF r.fileToken # NoToken
                               THEN <<FilePart(f), TextPart(prompt)>>
                               ELSE <<TextPart(prompt)>>,
                  !.sendRes = "pending",
                  !.sendCalls = @ + 1]

\* The try block from the contents array to the sendMessage await.
BuildAndSend(r, prompt, chat, m) ==
    LET hit == r.fileToken # NoToken /\ Has(m, r.fileToken)
        f == IF hit THEN m[r.fileToken] ELSE NoFile
    IN  [r EXCEPT !.pc = "awaitSend",
                  !.prompt = prompt,
                  !.chatSession = chat,
                  !.fileToDelete = f,
                  !.contents = IF hit THEN <<FilePart(f), TextPart(prompt)>>
                               ELSE <<TextPart(prompt)>>,
                  !.sendRes = "pending",
                  !.sendCalls = @ + 1]

CountDelete(name) ==
    deleteCalls' = IF name = NoToken THEN deleteCalls
                   ELSE [deleteCalls EXCEPT ![name] = @ + 1]

\* ------------------------------------------------------------- /upload
\* A handler that stores the entry whether or not the upload resolved.
AfterUpload_StoresOnFailure(m, geminiFile, ok) ==
    Put(m, geminiFile.name, geminiFile)

\* The map after ai.files.upload has settled: the file is stored under its
\* own name on the line after the await, which a rejected upload skips.
AfterUpload(m, geminiFile, ok) ==
    IF ok THEN Put(m, geminiFile.name, geminiFile) ELSE m

UploadRequest(u) ==
    /\ Serving
    /\ upload[u].pc = "idle"
    /\ InArrivalOrder(upload, u)
    /\ \E base64Data \in Base64Inputs, mimeType \in MimeInputs,
          fileName \in NameInputs :
          upload' = [upload EXCEPT ![u] =
              IF Falsy(base64Data) \/ Falsy(mimeType) \/ Falsy(fileName)
              THEN [@ EXCEPT !.pc = "done", !.status = 400]
              ELSE [@ EXCEPT !.pc = "awaitUpload",
                             !.displayName = fileName,
                             !.mimeType = mimeType]]
    /\ UNCHANGED <<variant, keyMode, uploadedFilesMap, turn, filesIssued, deleteCalls>>
    /\ RegistryUnchanged

UploadReturn(u) ==
    /\ upload[u].pc = "awaitUpload"
    /\ \E ok \in ProviderOutcomes :
          LET name == filesIssued + 1
              geminiFile == [name |-> name,
                             displayName |-> upload[u].displayName,
                             mimeType |-> upload[u].mimeType]
          IN  /\ filesIssued' = IF ok THEN name ELSE filesIssued
              /\ uploadedFilesMap' =
                     AfterUpload(uploadedFilesMap, geminiFile, ok)
              /\ upload' = [upload EXCEPT ![u] =
                     IF ok
                     THEN [@ EXCEPT !.pc = "done", !.status = 200,
                                    !.fileToken = geminiFile.name]
                     ELSE [@ EXCEPT !.pc = "done", !.status = 500]]
    /\ UNCHANGED <<variant, keyMode, turn, deleteCalls>>
    /\ RegistryUnchanged

\* --------------------------------------------------------------- /chat
\* Request arrival up to the first await.  The serverless build resolves the
\* session before validating the prompt and outside the try block; the
\* server validates first and resolves the session inside the try block.
ChatRequest(t) ==
    /\ Serving
    /\ turn[t].pc = "idle"
    /\ InArrivalOrder(turn, t)
    /\ \E prompt \in PromptInputs, fileToken \in TokenInputs,
          createOk \in BOOLEAN, frameworkAnswers \in BOOLEAN :
          LET g == getChatSession(SESSION_ID, createOk)
              r == [turn[t] EXCEPT
                       !.fileToken = fileToken,
                       !.staged = fileToken # NoToken
                                  /\ Has(uploadedFilesMap, fileToken),
                       !.absent = TokenAbsence(fileToken)]
              rf == [r EXCEPT !.createFailed = TRUE]
          IN  IF variant = "serverless"
              THEN /\ RegistryStep(g)
                   /\ UNCHANGED deleteCalls
                   /\ turn' = [turn EXCEPT ![t] =
                         IF g.threw
                         THEN Unhandled(rf, "create", frameworkAnswers)
                         ELSE IF Falsy(prompt)
                         THEN [r EXCEPT !.pc = "done", !.status = 400,
                                        !.chatSession = g.chat]
                         ELSE BuildAndSend(r, prompt, g.chat,
                                           uploadedFilesMap)]
              ELSE IF Falsy(prompt)
              THEN /\ RegistryUnchanged
                   /\ UNCHANGED deleteCalls
                   /\ turn' = [turn EXCEPT ![t] =
                         [r EXCEPT !.pc = "done", !.status = 400]]
              ELSE IF g.threw
              THEN LET c == EnterCatch(rf, "create", uploadedFilesMap)
                   IN  /\ RegistryStep(g)
                       /\ CountDelete(c.del)
                       /\ turn' = [turn EXCEPT ![t] = c.turn]
              ELSE /\ RegistryStep(g)
                   /\ UNCHANGED deleteCalls
                   /\ turn' = [turn EXCEPT ![t] =
                         BuildAndSend(r, prompt, g.chat, uploadedFilesMap)]
    /\ UNCHANGED <<variant, keyMode, uploadedFilesMap, upload, filesIssued>>

\* chatSession.sendMessage settles: the rest of the try block, or the catch.
SendReturn(t) ==
    /\ turn[t].pc = "awaitSend"
    /\ \E ok \in ProviderOutcomes :
          LET r == [turn[t] EXCEPT !.sendRes = IF ok THEN "ok" ELSE "failed"]
              c == IF ok
                   THEN IF r.fileToken # NoToken /\ r.fileToDelete # NoFile
                        THEN StartCleanup(r, "try", uploadedFilesMap)
                        ELSE [turn |-> Respond(r, "try"), del |-> NoToken]
                   ELSE EnterCatch(r, "send", uploadedFilesMap)
          IN  /\ turn' = [turn EXCEPT ![t] = c.turn]
              /\ CountDelete(c.del)
    /\ UNCHANGED <<variant, keyMode, uploadedFilesMap, upload, filesIssued>>
    /\ RegistryUnchanged

\* ai.files.delete settles inside deleteGeminiFile: the rest of
\* deleteGeminiFile, then the rest of the handler.
DeleteReturn(t) ==
    /\ turn[t].pc \in {"awaitDeleteTry", "awaitDeleteCatch"}
    /\ \E ok \in ProviderOutcomes :
          LET m == AfterDelete(uploadedFilesMap, turn[t].fileToken, ok)
              r == [turn[t] EXCEPT !.deleteFailed = @ \/ ~ok]
              phase == IF r.pc = "awaitDeleteTry" THEN "try" ELSE "catch"
              c == IF ~DeleteThrows(ok)
                   THEN [turn |-> Respond(r, phase), del |-> NoToken]
                   ELSE IF phase = "try"
                   THEN EnterCatch(r, "delete", m)
                   ELSE [turn |-> Unhandled(r, "delete", FALSE),
                         del |-> NoToken]
          IN  /\ uploadedFilesMap' = m
              /\ turn' = [turn EXCEPT ![t] = c.turn]
              /\ CountDelete(c.del)
    /\ UNCHANGED <<variant, keyMode, upload, filesIssued>>
    /\ RegistryUnchanged

\* The handler installed when the key is absent (single-function build):
\* whatever the request, it answers 500 and touches nothing.
KeyMissingHandler ==
    /\ keyMode = "fixed500"
    /\ \/ \E t \in Turns :
             /\ turn[t].pc = "idle"
             /\ InArrivalOrder(turn, t)
             /\ turn' = [turn EXCEPT ![t] =
                    [@ EXCEPT !.pc = "done", !.status = 500,
                              !.err = "config"]]
             /\ UNCHANGED upload
       \/ \E u \in Uploads :
             /\ upload[u].pc = "idle"
             /\ InArrivalOrder(upload, u)
             /\ upload' = [upload EXCEPT ![u] =
                    [@ EXCEPT !.pc = "done", !.status = 500]]
             /\ UNCHANGED turn
    /\ UNCHANGED <<variant, keyMode, uploadedFilesMap, filesIssued,
                   deleteCalls>>
    /\ RegistryUnchanged

Next ==
    \/ KeyMissingHandler
    \/ \E u \in Uploads : UploadRequest(u)
    \/ \E u \in Uploads : UploadReturn(u)
    \/ \E t \in Turns : ChatRequest(t)
    \/ \E t \in Turns : SendReturn(t)
    \/ \E t \in Turns : DeleteReturn(t)

Spec == Init /\ [][Next]_vars

\* The event loop runs a ready continuation, and the provider answers
\* sendMessage and files.upload; nothing makes ai.files.delete settle.
FairSpec ==
    /\ Spec
    /\ \A t \in Turns : WF_vars(SendReturn(t))
    /\ \A u \in Uploads : WF_vars(UploadReturn(u))

TypeOK ==
    /\ variant \in Variants
    /\ DOMAIN uploadedFilesMap \subseteq Tokens
    /\ \A t \in Turns : turn[t].pc \in {"idle", "awaitSend", "awaitDeleteTry",
                                        "awaitDeleteCatch", "done", "crashed"}

\* ================================================================ claims
Finished(t) == turn[t].pc \in {"done", "crashed"}

AwaitingDelete(t) == turn[t].pc \in {"awaitDeleteTry", "awaitDeleteCatch"}

\* The file name a turn attached to its sendMessage call, NoToken if none.
Attached(t) ==
    IF Len(turn[t].contents) = 2 THEN turn[t].contents[1].file.name
    ELSE NoToken

\* C1: every chat turn whose token was in uploadedFilesMap when the turn
\* started and whose sendMessage call has settled (resolved or rejected)
\* has, by the time it ends, invoked deleteGeminiFile on that token exactly
\* once, and only after sendMessage settled.
C1_CleanupExactlyOnce ==
    \A t \in Turns :
        (Finished(t) /\ turn[t].staged /\ turn[t].sendRes \in {"ok", "failed"})
            => (turn[t].consumeCalls = 1 /\ turn[t].consumedAfterSend)

\* C2: when deleteGeminiFile returns (the step that leaves its await on
\* ai.files.delete), uploadedFilesMap has no entry for the token, whether
\* the provider's delete resolved or rejected.
C2_ConsumeThenMiss ==
    [][\A t \in Turns :
          (AwaitingDelete(t) /\ turn'[t].pc # turn[t].pc)
              => ~Has(uploadedFilesMap', turn[t].fileToken)]_vars

\* C3: no two chat turns attach the same uploaded file to their sendMessage
\* calls.
C3_AttachedAtMostOnce ==
    \A t1, t2 \in Turns :
        (t1 # t2 /\ Attached(t1) # NoToken) => Attached(t1) # Attached(t2)

\* C4: for every session id, as long as no ai.chats.create call has failed,
\* ai.chats.create has been called exactly once if getChatSession was ever
\* called (and never otherwise), and every chat turn holds the one context
\* stored in chatSessions, over every interleaving of chat requests.
C4_OneContextPerSession ==
    \A s \in SessionIds :
        createFails[s] = 0 =>
            /\ createCalls[s] = (IF gcsCalls[s] > 0 THEN 1 ELSE 0)
            /\ \A t \in Turns :
                   turn[t].chatSession # NoChat =>
                       turn[t].chatSession = chatSessions[s]

\* Two chat turns have resolved the session and hold the same context, after
\* a single creation call.
C4_Witness ==
    /\ gcsCalls[SESSION_ID] >= 2
    /\ createCalls[SESSION_ID] = 1
    /\ createFails[SESSION_ID] = 0
    /\ \E t1, t2 \in Turns :
          /\ t1 # t2
          /\ turn[t1].chatSession # NoChat
          /\ turn[t1].chatSession = turn[t2].chatSession

\* The step with which a /chat request is answered 400 (prompt missing or
\* empty).
ChatRejected(t) == turn[t].pc = "idle" /\ turn'[t].status = 400

\* The step with which an /upload request is answered 400.
UploadRejected(u) == upload[u].pc = "idle" /\ upload'[u].status = 400

\* C5: a chat request whose prompt is missing or empty is answered with a
\* validation failure without any provider call: no ai.chats.create, no
\* sendMessage, no ai.files.delete.
C5_RejectedChatCallsNoProvider ==
    [][\A t \in Turns :
          ChatRejected(t) =>
              /\ createCalls' = createCalls
              /\ deleteCalls' = deleteCalls
              /\ turn'[t].sendCalls = 0]_vars

\* C6: a request rejected with a validation error leaves chatSessions and
\* uploadedFilesMap as they were.
C6_RejectedLeavesMaps ==
    [][((\E t \in Turns : ChatRejected(t))
        \/ (\E u \in Uploads : UploadRejected(u)))
           => /\ chatSessions' = chatSessions
              /\ uploadedFilesMap' = uploadedFilesMap]_vars

\* C7: a chat turn whose ai.files.delete call failed ends as its sendMessage
\* call decided: status 200 when sendMessage resolved, status 500 carrying
\* the sendMessage error when it rejected; the failed delete is never the
\* reported error and never leaves the request unanswered.
C7_DeleteFailureInvisible ==
    \A t \in Turns :
        (turn[t].deleteFailed /\ ~AwaitingDelete(t)) =>
            /\ turn[t].pc = "done"
            /\ turn[t].err # "delete"
            /\ turn[t].sendRes = "ok" => turn[t].status = 200
            /\ turn[t].sendRes = "failed" =>
                   (turn[t].status = 500 /\ turn[t].err = "send")

\* A turn whose sendMessage resolved and whose delete failed has answered 200.
C7_Witness ==
    \E t \in Turns :
        /\ turn[t].deleteFailed
        /\ turn[t].sendRes = "ok"
        /\ turn[t].pc = "done"
        /\ turn[t].status = 200

\* C8: once sendMessage has settled, the turn's response is eventually
\* returned, even if ai.files.delete never settles.
C8_ResponseDoesNotWaitOnCleanup ==
    \A t \in Turns :
        (turn[t].sendRes \in {"ok", "failed"}) ~> (turn[t].pc = "done")

\* C9: after a failed ai.chats.create no entry is stored for the session,
\* and the next getChatSession call for it calls ai.chats.create again.
C9_FailedCreateNotStored ==
    [][\A s \in SessionIds :
          /\ lastCreate'[s] = "failed" => chatSessions'[s] = NoChat
          /\ (lastCreate[s] = "failed" /\ gcsCalls'[s] # gcsCalls[s])
                 => createCalls'[s] = createCalls[s] + 1]_vars

\* A creation failed, the next call retried and the retry was stored.
C9_Witness ==
    /\ createFails[SESSION_ID] = 1
    /\ createCalls[SESSION_ID] = 2
    /\ chatSessions[SESSION_ID] # NoChat

\* C10: a chat turn whose context creation failed ends with a failure
\* response (status 500); it is never left without a response.
C10_CreateFailureAnswered ==
    \A t \in Turns :
        turn[t].createFailed =>
            /\ turn[t].pc # "crashed"
            /\ turn[t].pc = "done" => turn[t].status = 500

\* A chat request has arrived whose fileToken has no entry in
\* uploadedFilesMap because it was never staged or was already consumed.
UnknownToken(t) ==
    turn[t].pc # "idle" /\ turn[t].absent \in {"never", "consumed"}

CallsConsume(t) == turn'[t].consumeCalls = turn[t].consumeCalls + 1

\* C12: deleteGeminiFile called on a token that has no entry in
\* uploadedFilesMap is a no-op: it makes no ai.files.delete call, changes
\* neither map, and raises no error (the handler goes on to its response).
C12_ConsumeAbsentIsNoOp ==
    [][\A t \in Turns :
          (CallsConsume(t) /\ ~Has(uploadedFilesMap, turn'[t].fileToken))
              => /\ deleteCalls' = deleteCalls
                 /\ uploadedFilesMap' = uploadedFilesMap
                 /\ chatSessions' = chatSessions
                 /\ turn'[t].pc = "done"
                 /\ turn'[t].err # "delete"]_vars

\* C13: when GEMINI_API_KEY is absent no provider call is ever attempted
\* (no ai.chats.create, ai.files.upload, sendMessage, ai.files.delete) and
\* every chat and upload request that is answered gets the fixed
\* misconfiguration failure.
C13_NoKeyNoProviderCall ==
    keyMode # "set" =>
        /\ \A s \in SessionIds : createCalls[s] = 0
        /\ \A k \in Tokens : deleteCalls[k] = 0
        /\ \A t \in Turns :
               /\ turn[t].sendCalls = 0
               /\ turn[t].pc # "idle" =>
                      (turn[t].pc = "done" /\ turn[t].status = 500
                       /\ turn[t].err = "config")
        /\ \A u \in Uploads :
               /\ upload[u].pc # "awaitUpload"
               /\ upload[u].pc # "idle" => upload[u].status = 500

\* The step with which upload u is answered after ai.files.upload settled.
UploadAnswered(u) == upload[u].pc = "awaitUpload" /\ upload'[u].pc = "done"

\* C14: right after a successful upload, uploadedFilesMap has an entry under
\* the returned token; the entry's name is that token and its display name
\* and MIME type are those of the upload request; and in every state each
\* key of uploadedFilesMap is the name of the file stored under it.
C14_StageThenPeekHits ==
    /\ [](\A k \in DOMAIN uploadedFilesMap : uploadedFilesMap[k].name = k)
    /\ [][\A u \in Uploads :
            (UploadAnswered(u) /\ upload'[u].status = 200) =>
                LET tok == upload'[u].fileToken
                IN  /\ tok # NoToken
                    /\ Has(uploadedFilesMap', tok)
                    /\ uploadedFilesMap'[tok].name = tok
                    /\ uploadedFilesMap'[tok].displayName
                           = upload[u].displayName
                    /\ uploadedFilesMap'[tok].mimeType
                           = upload[u].mimeType
                    /\ ~Falsy(upload[u].displayName)
                    /\ ~Falsy(upload[u].mimeType)]_vars

\* An upload has been answered 200 and its file is stored under the
\* returned token with the request's display name and MIME type.
C14_Witness ==
    \E u \in Uploads :
        /\ upload[u].status = 200
        /\ Has(uploadedFilesMap, upload[u].fileToken)
        /\ uploadedFilesMap[upload[u].fileToken] =
               [name |-> upload[u].fileToken, displayName |-> "f.txt",
                mimeType |-> "text/plain"]

\* C15: when ai.files.upload fails the caller gets the upload failure
\* (status 500, no token) and uploadedFilesMap is unchanged.
C15_FailedUploadStoresNothing ==
    [][\A u \in Uploads :
          (UploadAnswered(u) /\ filesIssued' = filesIssued) =>
              /\ upload'[u].status = 500
              /\ upload'[u].fileToken = NoToken
              /\ uploadedFilesMap' = uploadedFilesMap]_vars

\* A valid upload request has been answered 500 after ai.files.upload
\* failed, no name was issued and nothing is stored.
C15_Witness ==
    \E u \in Uploads :
        /\ upload[u].status = 500
        /\ upload[u].displayName = "f.txt"
        /\ keyMode = "set"
        /\ filesIssued = 0
        /\ uploadedFilesMap = <<>>

\* C16: the message passed to sendMessage is <<file, prompt>>, the file being
\* the one stored under the supplied token, when the token was found in
\* uploadedFilesMap, and <<prompt>> otherwise; so never two attachments and
\* never an attachment without the (non-empty) prompt.
C16_ContentsOrder ==
    \A t \in Turns :
        turn[t].sendCalls > 0 =>
            /\ ~Falsy(turn[t].prompt)
            /\ IF turn[t].staged
               THEN /\ Len(turn[t].contents) = 2
                    /\ turn[t].contents[1].kind = "file"
                    /\ turn[t].contents[1].file.name = turn[t].fileToken
                    /\ turn[t].contents[1].file = turn[t].fileToDelete
                    /\ turn[t].contents[2] = TextPart(turn[t].prompt)
               ELSE turn[t].contents = <<TextPart(turn[t].prompt)>>

\* A turn has sent a staged file followed by its prompt.
C16_Witness ==
    \E t \in Turns :
        /\ turn[t].staged
        /\ turn[t].sendCalls = 1
        /\ Len(turn[t].contents) = 2
        /\ turn[t].contents[1].file.displayName = "f.txt"
        /\ turn[t].contents[2].text = "Hello"

\* C17: a chat turn calls sendMessage at most once; when the call fails the
\* turn ends with status 500 carrying the sendMessage error and has not
\* called sendMessage again.
C17_NoRetry ==
    \A t \in Turns :
        /\ turn[t].sendCalls <= 1
        /\ (Finished(t) /\ turn[t].sendRes = "failed") =>
               /\ turn[t].pc = "done"
               /\ turn[t].status = 500
               /\ turn[t].err = "send"

\* A turn whose only sendMessage call failed has answered 500.
C17_Witness ==
    \E t \in Turns :
        /\ turn[t].pc = "done"
        /\ turn[t].sendRes = "failed"
        /\ turn[t].sendCalls = 1
        /\ turn[t].status = 500
        /\ keyMode = "set"

\* C18: ai.files.delete is called at most once for any file name, over
\* every interleaving of chat turns.
C18_NoDoubleDelete ==
    \A k \in Tokens : deleteCalls[k] <= 1

\* The step in which turn t calls sendMessage.
IssuesSend(t) == turn'[t].sendCalls = turn[t].sendCalls + 1

\* C19: no sendMessage call carries a file for which ai.files.delete has
\* already been called, and a token whose entry was removed from
\* uploadedFilesMap is never stored again (every new key is a name the
\* provider had not issued before).
C19_DeletedNeverReused ==
    [][/\ \A t \in Turns :
             (IssuesSend(t) /\ Len(turn'[t].contents) = 2) =>
                 deleteCalls[turn'[t].contents[1].file.name] = 0
       /\ \A k \in Tokens :
             (Has(uploadedFilesMap', k) /\ ~Has(uploadedFilesMap, k))
                 => k > filesIssued]_vars

\* C20: chat turns of the same session are not serialized.  While a turn
\* awaits sendMessage the next chat request is taken up; two turns that
\* both await sendMessage hold the same conversation context, and either
\* one's call may settle first, whatever the order of arrival.
C20_TurnsNotSerialized ==
    /\ \A t \in Turns :
           (t > 1 /\ turn[t].pc = "idle" /\ turn[t - 1].pc = "awaitSend")
               => ENABLED ChatRequest(t)
    /\ \A t1, t2 \in Turns :
           (t1 # t2 /\ turn[t1].pc = "awaitSend"
                    /\ turn[t2].pc = "awaitSend")
               => /\ turn[t1].chatSession = turn[t2].chatSession
                  /\ turn[t1].chatSession # NoChat
                  /\ ENABLED SendReturn(t1)
                  /\ ENABLED SendReturn(t2)

\* Two turns had sendMessage outstanding on the same context and the one
\* that arrived later was answered first.
C20_Witness ==
    \E t1, t2 \in Turns :
        /\ t1 < t2
        /\ turn[t1].pc = "awaitSend"
        /\ turn[t2].pc = "done"
        /\ turn[t2].sendRes = "ok"
        /\ turn[t1].chatSession = turn[t2].chatSession
        /\ turn[t1].chatSession # NoChat

\* The step in which the ai.files.delete call of turn t settles, for a turn
\* that supplied token k.
CleanupOf(t, k) ==
    /\ turn[t].fileToken = k
    /\ AwaitingDelete(t)
    /\ turn'[t].pc # turn[t].pc

\* C21: an entry of uploadedFilesMap is removed or changed only by the
\* cleanup of a chat turn that supplied the entry's token; every other step
\* (uploads, chat turns without a token or with another token) leaves it as
\* it is, so an entry whose token no chat turn has supplied stays.
C21_OnlyOwnCleanupRemoves ==
    [][\A k \in DOMAIN uploadedFilesMap :
          \/ /\ Has(uploadedFilesMap', k)
             /\ uploadedFilesMap'[k] = uploadedFilesMap[k]
          \/ \E t \in Turns : CleanupOf(t, k)]_vars

\* A file is still staged although a chat turn that supplied another staged
\* token has completed its cleanup and removed that other entry.
C21_Witness ==
    \E k \in DOMAIN uploadedFilesMap :
        /\ \A t \in Turns : turn[t].fileToken # k
        /\ \E t \in Turns :
              /\ turn[t].pc = "done"
              /\ turn[t].staged
              /\ turn[t].consumeCalls = 1
              /\ ~turn[t].deleteFailed
              /\ ~Has(uploadedFilesMap, turn[t].fileToken)

====
